---- MODULE Spec2Model ----
(***************************************************************************)
(* Model of the schema migration engine of database-layer/migrations/      *)
(* migration_manager.py: MigrationManager (definition loader),             *)
(* MigrationTracker (ledger) and DatabaseMigrator (orchestrator).          *)
(*                                                                         *)
(* A version is a 14-digit string; fixed-width digit strings compare       *)
(* lexically exactly as the numbers they spell, so a version is modelled   *)
(* as a number in 1..MaxVersion.  A file of the migrations directory is    *)
(* <version>_<slug>.sql; the slug is a number of Slugs, ordered as the     *)
(* slug strings are.                                                       *)
(***************************************************************************)
EXTENDS Integers, Sequences, FiniteSets, TLC

MaxVersion == 3     \* versions are 1..MaxVersion
MaxFiles   == 3     \* at most this many files in the migrations directory
MaxRuns    == 2     \* at most this many migrate_up / migrate_down runs
MaxApplied == 2     \* longest applied_versions list handed to the manager
MaxStamp   == 2     \* instants (microseconds) within one second of the clock
MaxCalls   == 3     \* at most this many direct calls of the tracker
MaxLen     == 3     \* at most this many pieces of text in a migration file
MaxStatements  == 2 \* statements of a migration script
MaxConnections == 1 \* max_connections of the pool
MaxCallers     == 2 \* tasks that call the pool
MaxObjects     == 3 \* at most this many connection objects constructed
MaxMessages    == 3 \* at most this many messages handed to the consumer

Versions == 1..MaxVersion
Slugs    == {1, 2}

\* Optional[str]: None is the empty sequence, a given target t is <<t>>.
\* Target 0 is a version string below every defined version.
None    == << >>
Targets == {None} \cup {<<t>> : t \in 0..MaxVersion}

\* What the loader makes of a file of the directory:
\*   "migration"   <14 digits>_<slug>.sql, readable
\*   "unreadable"  <14 digits>_<slug>.sql, open() or read() raises
\*   "badname"     *.sql whose stem does not match ^(\d{14})_(.+)$
\*   "other"       not *.sql and no 14-digit prefix either (README.md)
\* For the last two, version and slug only give the place in path order.
FileClasses == {"migration", "unreadable", "badname", "other"}

\* A file: its name (version, slug), whether it has text after the
\* "-- DOWN" marker, and the instant in its "-- Created:" line (0 for a
\* file not written by create_migration).
FileRecords ==
    [version : Versions, slug : Slugs, down : BOOLEAN,
     class : FileClasses, stamp : 0..MaxStamp]

\* The directories the model starts from: file names are unique, and a
\* version has a file of the second slug only next to one of the first (a
\* lone file behaves the same under either slug).
Stores ==
    {S \in SUBSET {f \in FileRecords : f.class = "migration" /\ f.stamp = 0} :
        /\ Cardinality(S) <= MaxFiles
        /\ \A f, g \in S : (f.version = g.version /\ f.slug = g.slug) => f = g
        /\ \A f \in S : f.slug = 2 => \E g \in S : g.version = f.version /\ g.slug = 1}

\* The directories with files of every class: one file per place in path
\* order; only a migration has a down_script.
LoadStores ==
    {S \in SUBSET {f \in FileRecords :
                      /\ f.slug = 1 /\ f.stamp = 0
                      /\ f.class # "migration" => ~f.down} :
        /\ Cardinality(S) <= MaxFiles
        /\ \A f, g \in S : f.version = g.version => f = g}

VARIABLES
    files,        \* the migrations directory
    migrations,   \* MigrationManager.migrations
    db,           \* versions whose up-script is committed in the target database
    ledger,       \* versions with a row in schema_migrations
    ledgerStart,  \* ledger when the current / last run started
    pc,           \* "idle", "up" (in the loop of migrate_up), "down"
    kind,         \* the current / last run: "none", "up", "down"
    target,       \* target_version of the current / last run
    plan,         \* the migrations the loop has still to visit
    log,          \* scripts executed in the current / last run: [version, ok]
    result,       \* return value of the last finished run: "none", "true", "false"
    dbStart,      \* db when the current / last run started
    prev,         \* the run before the current one: [kind, target, result]
    runs,         \* number of runs started
    query,        \* the last call answered: its name, argument and return value
    recorded,     \* per version, the direct mark_migration_applied calls that
                  \* returned since its last mark_migration_rolled_back
    calls,        \* number of direct calls of the tracker
    loadLog,      \* the logger records of _load_migrations: [level, version, slug]
    other,        \* a second invocation of migrate_up, which may overlap the
                  \* first: [pc, plan, log, result], whether the first was in
                  \* its loop when it started (late) and the value of runs then
    cancel,       \* the run (value of runs) whose cancellation the caller has
                  \* requested, 0 when none
    clock,        \* datetime.utcnow(): the second, which is the version
                  \* create_migration gives, and the instant within it
    content,      \* the text of the file _parse_migration_file read last
    parsed,       \* the up_sql and down_sql it made of that text
    effects,      \* statements <<version, i>> in effect in the database,
                  \* those of the open transaction included
    txn,          \* the transaction of execute_query: whether it is open,
                  \* its migration, the statements done, what it added
    pool,         \* DatabaseConnectionPool: connections, available_connections
                  \* and busy_connections, and the connection objects made
    tasks,        \* the callers of the pool: where each is, its connection
    consumer      \* MessageQueueConsumer.start: where the loop is, and for
                  \* each message consumed how process_message ended and
                  \* the acknowledgement calls made for it

extVars == <<recorded, calls, loadLog, other, cancel, clock>>

auxVars == <<content, parsed, effects, txn, pool, tasks, consumer>>

vars == <<files, migrations, db, ledger, ledgerStart, pc, kind, target, plan,
          log, result, dbStart, prev, runs, query, extVars, auxVars>>

runVars == <<db, ledger, ledgerStart, pc, kind, target, plan, log, result,
             dbStart, prev, runs>>


----------------------------------------------------------------------------
(* Helpers on sequences *)

Range(s) == {s[i] : i \in 1..Len(s)}

InList(x, s) == \E i \in 1..Len(s) : s[i] = x

VersionsOf(ms) == [i \in 1..Len(ms) |-> ms[i].version]

\* The order of sorted(..., reverse=True): newest file first.
PathLess_Mutant(f, g) ==
    \/ f.version > g.version
    \/ f.version = g.version /\ f.slug > g.slug

\* Path order of sorted(glob("*.sql")): the file name, i.e. version then slug.
PathLess(f, g) ==
    \/ f.version < g.version
    \/ f.version = g.version /\ f.slug < g.slug

RECURSIVE SortedFiles(_)
SortedFiles(S) ==
    IF S = {} THEN << >>
    ELSE LET f == CHOOSE x \in S : \A y \in S \ {x} : PathLess(x, y)
         IN  <<f>> \o SortedFiles(S \ {f})

----------------------------------------------------------------------------
(* MigrationManager *)

\* glob("*.sql")
Glob(S) == {f \in S : f.class # "other"}

\* _parse_migration_file without the `if not match` test: match.group
\* raises on a stem that does not match.
_parse_migration_file_Mutant(f) ==
    IF f.class \in {"badname", "unreadable"} THEN [outcome |-> "raise"]
    ELSE [outcome |-> "Migration",
          migration |-> [version |-> f.version, slug |-> f.slug, down |-> f.down]]

\* _parse_migration_file: None (after a warning) when the stem does not
\* match, an exception when the file cannot be read, else the Migration.
_parse_migration_file(f) ==
    IF f.class = "badname" THEN [outcome |-> "None"]
    ELSE IF f.class = "unreadable" THEN [outcome |-> "raise"]
    ELSE [outcome |-> "Migration",
          migration |-> [version |-> f.version, slug |-> f.slug, down |-> f.down]]

\* _load_migrations: every *.sql file in path order is parsed and, when a
\* Migration comes back, appended; an exception is logged and the loop goes
\* on.  No check is made that versions differ.
_load_migrations(S) ==
    LET fs   == SortedFiles(Glob(S))
        kept == SelectSeq(fs, LAMBDA f : _parse_migration_file(f).outcome = "Migration")
    IN  [i \in 1..Len(kept) |-> _parse_migration_file(kept[i]).migration]

\* The logger records of _load_migrations: the warning of line 61 and the
\* error of line 53, in path order.
LoadLog(S) ==
    LET fs     == SortedFiles(Glob(S))
        logged == SelectSeq(fs, LAMBDA f : _parse_migration_file(f).outcome # "Migration")
    IN  [i \in 1..Len(logged) |->
            [level   |-> IF _parse_migration_file(logged[i]).outcome = "None"
                         THEN "warning" ELSE "error",
             version |-> logged[i].version,
             slug    |-> logged[i].slug]]

get_pending_migrations_Mutant(ms, applied) ==
    SelectSeq(ms, LAMBDA m : InList(m.version, applied))

\* get_pending_migrations: [m for m in migrations if m.version not in applied]
get_pending_migrations(ms, applied) ==
    SelectSeq(ms, LAMBDA m : ~InList(m.version, applied))

\* get_applied_migrations: [m for m in migrations if m.version in applied]
get_applied_migrations(ms, applied) ==
    SelectSeq(ms, LAMBDA m : InList(m.version, applied))

----------------------------------------------------------------------------
(* MigrationTracker: the persistence is a stub that only logs *)

\* get_applied_versions: "For now, return empty list".
get_applied_versions(l) == << >>

\* mark_migration_applied: logs, inserts nothing.
mark_migration_applied(l, m) == l

\* mark_migration_rolled_back: logs, deletes nothing.
mark_migration_rolled_back(l, v) == l

----------------------------------------------------------------------------
(* DatabaseMigrator *)

\* `if target_version:` is false for None (and for the empty string).
Truthy(t) == t # None

\* list.sort(key=version, reverse=True): stable, descending by version.
RECURSIVE SortDescending(_)
SortDescending(ms) ==
    IF ms = << >> THEN << >>
    ELSE LET top == CHOOSE i \in 1..Len(ms) :
                       /\ \A j \in 1..Len(ms) : ms[j].version <= ms[i].version
                       /\ \A j \in 1..(i - 1) : ms[j].version < ms[i].version
             rest == [j \in 1..(Len(ms) - 1) |-> IF j < top THEN ms[j] ELSE ms[j + 1]]
         IN  <<ms[top]>> \o SortDescending(rest)

UpPlan_Mutant(ms, applied, t) ==
    LET pend == get_pending_migrations(ms, applied)
    IN  IF Truthy(t)
        THEN SelectSeq(pend, LAMBDA m : m.version < t[1])
        ELSE pend

\* migrate_up, lines 171-175: the list the loop iterates.
UpPlan(ms, applied, t) ==
    LET pend == get_pending_migrations(ms, applied)
    IN  IF Truthy(t)
        THEN SelectSeq(pend, LAMBDA m : m.version <= t[1])
        ELSE pend

\* migrate_down, lines 197-204: the list the loop iterates.
DownPlan(ms, applied, t) ==
    LET am == get_applied_migrations(ms, applied)
    IN  SortDescending(IF Truthy(t)
                       THEN SelectSeq(am, LAMBDA m : m.version > t[1])
                       ELSE am)

\* DatabaseMigrator.__init__ on the directory `files`: the manager loads
\* the migrations, the tracker logs its CREATE TABLE, nothing has run.
Constructed ==
    /\ migrations = _load_migrations(files)
    /\ db = {}
    /\ ledger = {}
    /\ ledgerStart = {}
    /\ pc = "idle"
    /\ kind = "none"
    /\ target = None
    /\ plan = << >>
    /\ log = << >>
    /\ result = "none"
    /\ dbStart = {}
    /\ prev = [kind |-> "none", target |-> None, result |-> "none"]
    /\ runs = 0
    /\ query = [op |-> "none"]
    /\ recorded = [v \in Versions |-> 0]
    /\ calls = 0
    /\ loadLog = LoadLog(files)
    /\ other = [pc |-> "idle", plan |-> << >>, log |-> << >>, result |-> "none",
                late |-> FALSE, since |-> 0]
    /\ cancel = 0
    /\ clock = [sec |-> MaxVersion, usec |-> 1]
    /\ content = << >>
    /\ parsed = [read |-> FALSE, up_sql |-> << >>, down_sql |-> << >>]
    /\ effects = {}
    /\ txn = [open |-> FALSE, version |-> 0, done |-> 0, added |-> {}]
    /\ pool = [connections |-> << >>, available_connections |-> << >>,
               busy_connections |-> << >>, made |-> 0]
    /\ tasks = [c \in 1..MaxCallers |-> [pc |-> "idle", conn |-> None]]
    /\ consumer = [pc |-> "consume", handled |-> << >>]

Init ==
    /\ files \in Stores
    /\ Constructed

InitLoad ==
    /\ files \in LoadStores
    /\ Constructed

\* Entry of a run: the bookkeeping common to migrate_up and migrate_down.
StartRun(k, t, p) ==
    /\ pc = "idle"
    /\ runs < MaxRuns
    /\ runs' = runs + 1
    /\ prev' = [kind |-> kind, target |-> target, result |-> result]
    /\ kind' = k
    /\ target' = t
    /\ plan' = p
    /\ log' = << >>
    /\ result' = "none"
    /\ dbStart' = db
    /\ ledgerStart' = ledger
    /\ pc' = k
    /\ UNCHANGED <<files, migrations, db, ledger, query, extVars, auxVars>>

\* migrate_up up to the loop: read the ledger, compute the pending list.
MigrateUpStart(t) ==
    StartRun("up", t, UpPlan(migrations, get_applied_versions(ledger), t))

\* One iteration of the loop of migrate_up: execute_query(up_sql) runs the
\* script in one transaction (python_connection.py, engine.begin()), which
\* commits or raises; then mark_migration_applied.
UpStep ==
    /\ pc = "up"
    /\ plan # << >>
    /\ LET m == Head(plan)
       IN  \E ok \in BOOLEAN :
             /\ log' = Append(log, [version |-> m.version, ok |-> ok])
             /\ IF ok
                THEN /\ db' = db \cup {m.version}
                     /\ ledger' = mark_migration_applied(ledger, m)
                     /\ plan' = Tail(plan)
                     /\ UNCHANGED <<pc, result>>
                ELSE \* except Exception: return False
                     /\ result' = "false"
                     /\ pc' = "idle"
                     /\ plan' = << >>
                     /\ UNCHANGED <<db, ledger>>
    /\ UNCHANGED <<files, migrations, ledgerStart, kind, target, dbStart, prev,
                   runs, query, extVars, auxVars>>

\* The loop of migrate_up is exhausted: return True.
UpFinish ==
    /\ pc = "up"
    /\ plan = << >>
    /\ result' = "true"
    /\ pc' = "idle"
    /\ UNCHANGED <<files, migrations, db, ledger, ledgerStart, kind, target,
                   plan, log, dbStart, prev, runs, query, extVars, auxVars>>

\* migrate_down up to the loop: read the ledger, compute the revert list.
MigrateDownStart(t) ==
    StartRun("down", t, DownPlan(migrations, get_applied_versions(ledger), t))

\* The loop of migrate_down: one iteration, or return True when exhausted.
DownLoop ==
    /\ pc = "down"
    /\ IF plan = << >>
       THEN /\ result' = "true"
            /\ pc' = "idle"
            /\ UNCHANGED <<db, ledger, plan, log>>
       ELSE LET m == Head(plan)
            IN  IF ~m.down
                THEN \* no rollback SQL: warning, continue
                     /\ plan' = Tail(plan)
                     /\ UNCHANGED <<db, ledger, log, pc, result>>
                ELSE \E ok \in BOOLEAN :
                       /\ log' = Append(log, [version |-> m.version, ok |-> ok])
                       /\ IF ok
                          THEN /\ db' = db \ {m.version}
                               /\ ledger' = mark_migration_rolled_back(ledger, m.version)
                               /\ plan' = Tail(plan)
                               /\ UNCHANGED <<pc, result>>
                          ELSE /\ result' = "false"
                               /\ pc' = "idle"
                               /\ plan' = << >>
                               /\ UNCHANGED <<db, ledger>>
    /\ UNCHANGED <<files, migrations, ledgerStart, kind, target, dbStart, prev,
                   runs, query, extVars, auxVars>>

Next ==
    \/ \E t \in Targets : MigrateUpStart(t)
    \/ UpStep
    \/ UpFinish
    \/ \E t \in Targets : MigrateDownStart(t)
    \/ DownLoop

Spec == Init /\ [][Next]_vars

\* What the value returned by migrate_up / migrate_down tells about the
\* migration that stopped the run: it is the bool True or False (lines 188,
\* 192, 221, 225), which names no version; the exception is only logged.
FailingVersionOf(r) == None

\* The value a run returns when a script raised: `except Exception as e:
\* ... return False` (lines 190-192, 223-225).
ScriptFailureResult == "false"

\* The runs under the scheduling of the event loop: a run that is in its
\* loop and whose awaited call has returned or raised is resumed.
SpecFair ==
    /\ Init
    /\ [][Next]_vars
    /\ WF_vars(UpStep)
    /\ WF_vars(UpFinish)
    /\ WF_vars(DownLoop)

----------------------------------------------------------------------------
(* The queries of the manager and of the migrator, on their own *)

\* The applied_versions lists handed to get_pending_migrations: version
\* strings, defined or not (0), without repetition and in ascending order
\* (the manager only tests membership).
AppliedLists ==
    {l \in UNION {[1..n -> 0..MaxVersion] : n \in 0..MaxApplied} :
        \A i \in 1..(Len(l) - 1) : l[i] < l[i + 1]}

\* A call of MigrationManager.get_pending_migrations.
GetPending(applied) ==
    /\ query' = [op |-> "get_pending_migrations",
                 applied_versions |-> applied,
                 pending |-> get_pending_migrations(migrations, applied)]
    /\ UNCHANGED <<files, migrations, runVars, extVars, auxVars>>

\* get_migration_status that sorts the list it got from get_migrations
\* for display, newest first: the list is the manager's own.
GetMigrationStatus_Mutant ==
    LET applied == get_applied_versions(ledger)
        pend    == get_pending_migrations(migrations, applied)
    IN  /\ query' = [op |-> "get_migration_status",
                     total_migrations   |-> Len(migrations),
                     applied_migrations |-> Len(applied),
                     pending_migrations |-> Len(pend),
                     applied_versions   |-> applied,
                     pending_versions   |-> VersionsOf(pend)]
        /\ migrations' = SortDescending(migrations)
        /\ UNCHANGED <<files, runVars, extVars, auxVars>>

\* get_migration_status
GetMigrationStatus ==
    LET applied == get_applied_versions(ledger)
        pend    == get_pending_migrations(migrations, applied)
    IN  /\ query' = [op |-> "get_migration_status",
                     total_migrations   |-> Len(migrations),
                     applied_migrations |-> Len(applied),
                     pending_migrations |-> Len(pend),
                     applied_versions   |-> applied,
                     pending_versions   |-> VersionsOf(pend)]
        /\ UNCHANGED <<files, migrations, runVars, extVars, auxVars>>

NextQuery ==
    \/ \E applied \in AppliedLists : GetPending(applied)
    \/ GetMigrationStatus

SpecQuery == Init /\ [][NextQuery]_vars

\* The status query between the steps of migrate_up runs.
NextStatus ==
    \/ \E t \in Targets : MigrateUpStart(t)
    \/ UpStep
    \/ UpFinish
    \/ GetMigrationStatus

SpecStatus == Init /\ [][NextStatus]_vars

----------------------------------------------------------------------------
(* The tracker, called on its own *)

\* A call of MigrationTracker.mark_migration_applied: it logs and returns.
MarkApplied(m) ==
    /\ calls < MaxCalls
    /\ calls' = calls + 1
    /\ ledger' = mark_migration_applied(ledger, m)
    /\ recorded' = [recorded EXCEPT ![m.version] = @ + 1]
    /\ query' = [op |-> "mark_migration_applied", version |-> m.version,
                 raised |-> FALSE]
    /\ UNCHANGED <<files, migrations, db, ledgerStart, pc, kind, target, plan,
                   log, result, dbStart, prev, runs, loadLog, other, cancel, clock, auxVars>>

\* A call of MigrationTracker.mark_migration_rolled_back: it logs and returns.
MarkRolledBack(v) ==
    /\ calls < MaxCalls
    /\ calls' = calls + 1
    /\ ledger' = mark_migration_rolled_back(ledger, v)
    /\ recorded' = [recorded EXCEPT ![v] = 0]
    /\ query' = [op |-> "mark_migration_rolled_back", version |-> v,
                 raised |-> FALSE]
    /\ UNCHANGED <<files, migrations, db, ledgerStart, pc, kind, target, plan,
                   log, result, dbStart, prev, runs, loadLog, other, cancel, clock, auxVars>>

\* A call of MigrationTracker.get_applied_versions.
GetAppliedVersions ==
    /\ calls < MaxCalls
    /\ calls' = calls + 1
    /\ query' = [op |-> "get_applied_versions",
                 applied_versions |-> get_applied_versions(ledger)]
    /\ UNCHANGED <<files, migrations, runVars, recorded, loadLog, other, cancel,
                   clock, auxVars>>

NextLedger ==
    \/ \E m \in Range(migrations) : MarkApplied(m)
    \/ \E v \in Versions : MarkRolledBack(v)
    \/ GetAppliedVersions

SpecLedger == Init /\ [][NextLedger]_vars

----------------------------------------------------------------------------
(* Two invocations of migrate_up on one database.  migrate_up is a coroutine
   that yields at `await self.connection.execute_query`; nothing in
   DatabaseMigrator takes a lock, so a second invocation (another task, or
   another process) runs between the iterations of the first. *)

\* The second invocation up to its loop.
OtherUpStart(t) ==
    /\ other.pc = "idle"
    /\ runs < MaxRuns
    /\ runs' = runs + 1
    /\ other' = [pc     |-> "up",
                 plan   |-> UpPlan(migrations, get_applied_versions(ledger), t),
                 log    |-> << >>,
                 result |-> "none",
                 late   |-> pc # "idle",
                 since  |-> runs + 1]
    /\ UNCHANGED <<files, migrations, db, ledger, ledgerStart, pc, kind, target,
                   plan, log, result, dbStart, prev, query, recorded, calls,
                   loadLog, cancel, clock, auxVars>>

\* One iteration of the loop of the second invocation.
OtherUpStep ==
    /\ other.pc = "up"
    /\ other.plan # << >>
    /\ LET m == Head(other.plan)
       IN  \E ok \in BOOLEAN :
             IF ok
             THEN /\ db' = db \cup {m.version}
                  /\ ledger' = mark_migration_applied(ledger, m)
                  /\ other' = [other EXCEPT
                                 !.plan = Tail(@),
                                 !.log = Append(@, [version |-> m.version, ok |-> TRUE])]
             ELSE /\ other' = [other EXCEPT
                                 !.pc = "idle",
                                 !.plan = << >>,
                                 !.result = "false",
                                 !.log = Append(@, [version |-> m.version, ok |-> FALSE])]
                  /\ UNCHANGED <<db, ledger>>
    /\ UNCHANGED <<files, migrations, ledgerStart, pc, kind, target, plan, log,
                   result, dbStart, prev, runs, query, recorded, calls, loadLog,
                   cancel, clock, auxVars>>

\* The loop of the second invocation is exhausted: return True.
OtherUpFinish ==
    /\ other.pc = "up"
    /\ other.plan = << >>
    /\ other' = [other EXCEPT !.pc = "idle", !.result = "true"]
    /\ UNCHANGED <<files, migrations, runVars, query, recorded, calls, loadLog,
                   cancel, clock, auxVars>>

NextOverlap ==
    \/ \E t \in Targets : MigrateUpStart(t)
    \/ UpStep
    \/ UpFinish
    \/ \E t \in Targets : OtherUpStart(t)
    \/ OtherUpStep
    \/ OtherUpFinish

SpecOverlap == Init /\ [][NextOverlap]_vars

----------------------------------------------------------------------------
(* create_migration *)

\* Time passes within the current second.
Tick ==
    /\ clock.usec < MaxStamp
    /\ clock' = [clock EXCEPT !.usec = @ + 1]
    /\ UNCHANGED <<files, migrations, runVars, query, recorded, calls, loadLog,
                   other, cancel, auxVars>>

\* The file create_migration writes: <timestamp>_<slug>.sql with the
\* template, whose "-- Created:" line holds the instant and whose DOWN
\* section is not empty (two comment lines).
Template(name) ==
    [version |-> clock.sec, slug |-> name, down |-> TRUE,
     class |-> "migration", stamp |-> clock.usec]

\* create_migration(name): open(file_path, 'w') creates the file or
\* truncates the one of that name; the loaded list is not refreshed.
CreateMigration(name) ==
    LET new == Template(name)
    IN  /\ files' = {f \in files : ~(f.version = new.version /\ f.slug = new.slug)}
                        \cup {new}
        /\ query' = [op |-> "create_migration", path |-> <<new.version, new.slug>>]
        /\ UNCHANGED <<migrations, runVars, recorded, calls, loadLog, other,
                       cancel, clock, auxVars>>

NextCreate ==
    \/ Tick
    \/ \E name \in Slugs : CreateMigration(name)

SpecCreate == Init /\ [][NextCreate]_vars

----------------------------------------------------------------------------
(* Cancellation.  migrate_up has no cancellation parameter and its loop
   (lines 177-186) tests nothing at the top of an iteration: a request of
   the caller to stop the run is a fact the code never reads. *)

\* The caller asks for the run in progress to stop, between two migrations.
RequestCancel ==
    /\ pc = "up"
    /\ cancel # runs
    /\ cancel' = runs
    /\ UNCHANGED <<files, migrations, runVars, query, recorded, calls, loadLog,
                   other, clock, auxVars>>

NextCancel ==
    \/ \E t \in Targets : MigrateUpStart(t)
    \/ UpStep
    \/ UpFinish
    \/ RequestCancel

SpecCancel == Init /\ [][NextCancel]_vars

----------------------------------------------------------------------------
(* migrate_up on directories that hold more than readable migrations *)

NextLoad ==
    \/ \E t \in Targets : MigrateUpStart(t)
    \/ UpStep
    \/ UpFinish

SpecLoad == InitLoad /\ [][NextLoad]_vars

----------------------------------------------------------------------------
(* The text of a migration file.  A text is a sequence of pieces: "UP" is
   the substring `-- UP`, "DOWN" the substring `-- DOWN`, "ws" white space,
   "a" and "b" any other text (a piece right after "UP" may be the rest of
   a word, as in `-- UPDATE`). *)

Pieces == {"UP", "DOWN", "ws", "a", "b"}

Contents == UNION {[1..n -> Pieces] : n \in 0..MaxLen}

\* Index of the first piece of s equal to x, 0 when there is none.
RECURSIVE find(_, _)
find(s, x) ==
    IF s = << >> THEN 0
    ELSE IF Head(s) = x THEN 1
    ELSE LET i == find(Tail(s), x) IN IF i = 0 THEN 0 ELSE i + 1

\* str.split(sep): the list of the texts between the occurrences of sep.
RECURSIVE split(_, _)
split(s, sep) ==
    LET i == find(s, sep)
    IN  IF i = 0 THEN <<s>>
        ELSE <<SubSeq(s, 1, i - 1)>> \o split(SubSeq(s, i + 1, Len(s)), sep)

\* str.replace(old, ''): every occurrence of old is removed.
replace(s, old) == SelectSeq(s, LAMBDA x : x # old)

\* str.strip(): leading and trailing white space is removed.
RECURSIVE strip(_)
strip(s) ==
    IF s = << >> THEN s
    ELSE IF Head(s) = "ws" THEN strip(Tail(s))
    ELSE IF s[Len(s)] = "ws" THEN strip(SubSeq(s, 1, Len(s) - 1))
    ELSE s

\* parts[0].replace('-- UP', '').strip()
up_sql(c) == strip(replace(split(c, "DOWN")[1], "UP"))

\* parts[1].strip() if len(parts) > 1 else ""
down_sql(c) ==
    LET parts == split(c, "DOWN")
    IN  IF Len(parts) > 1 THEN strip(parts[2]) ELSE << >>

\* _parse_migration_file on a file with a valid name and the text c.
ParseMigrationFile(c) ==
    /\ content' = c
    /\ parsed' = [read |-> TRUE, up_sql |-> up_sql(c), down_sql |-> down_sql(c)]
    /\ UNCHANGED <<files, migrations, runVars, query, extVars, effects, txn,
                   pool, tasks, consumer>>

\* A migrator on an empty directory.
InitEmpty ==
    /\ files = {}
    /\ Constructed

NextParse == \E c \in Contents : ParseMigrationFile(c)

SpecParse == InitEmpty /\ [][NextParse]_vars

----------------------------------------------------------------------------
(* execute_query, statement by statement.  A script has MaxStatements
   statements; statement i of the script of version v leaves the effect
   <<v, i>> in the database.  execute_query runs the script inside
   `async with self.async_engine.begin()`: the block commits when it is left
   normally and rolls back when it is left by an exception. *)

\* A transaction that keeps what it did when it is left by an exception.
rollback_Mutant(eff, t) == eff

\* Leaving the block of engine.begin() by an exception: what the
\* transaction added is undone.
rollback(eff, t) == eff \ t.added

\* The next statement of the script of the migration at the head of the
\* plan: it takes effect, or it raises, which rolls the transaction back
\* and ends the run (except Exception: return False).
ExecuteStatement ==
    /\ pc = "up"
    /\ plan # << >>
    /\ txn.open => txn.done < MaxStatements
    /\ LET m   == Head(plan)
           cur == IF txn.open THEN txn
                  ELSE [open |-> TRUE, version |-> m.version, done |-> 0,
                        added |-> {}]
           e   == <<m.version, cur.done + 1>>
       IN  \E ok \in BOOLEAN :
             IF ok
             THEN /\ effects' = effects \cup {e}
                  /\ txn' = [cur EXCEPT !.done = @ + 1,
                                        !.added = @ \cup ({e} \ effects)]
                  /\ UNCHANGED <<db, ledger, pc, plan, log, result>>
             ELSE /\ effects' = rollback(effects, cur)
                  /\ txn' = [cur EXCEPT !.open = FALSE, !.added = {}]
                  /\ log' = Append(log, [version |-> m.version, ok |-> FALSE])
                  /\ result' = "false"
                  /\ pc' = "idle"
                  /\ plan' = << >>
                  /\ UNCHANGED <<db, ledger>>
    /\ UNCHANGED <<files, migrations, ledgerStart, kind, target, dbStart, prev,
                   runs, query, extVars, content, parsed, pool, tasks, consumer>>

\* The script is through: the block of engine.begin() is left normally,
\* which commits; then mark_migration_applied.
Commit ==
    /\ pc = "up"
    /\ txn.open
    /\ txn.done = MaxStatements
    /\ txn' = [txn EXCEPT !.open = FALSE, !.added = {}]
    /\ db' = db \cup {txn.version}
    /\ ledger' = mark_migration_applied(ledger, Head(plan))
    /\ log' = Append(log, [version |-> txn.version, ok |-> TRUE])
    /\ plan' = Tail(plan)
    /\ UNCHANGED <<files, migrations, ledgerStart, pc, kind, target, result,
                   dbStart, prev, runs, query, extVars, content, parsed,
                   effects, pool, tasks, consumer>>

NextTxn ==
    \/ \E t \in Targets : MigrateUpStart(t)
    \/ ExecuteStatement
    \/ Commit
    \/ UpFinish

SpecTxn == Init /\ [][NextTxn]_vars

----------------------------------------------------------------------------
(* DatabaseConnectionPool.  The callers are tasks of one event loop: a
   coroutine runs without interruption up to its next await, so
   get_connection is one step when it takes an available connection or
   returns None, and two steps (before and after `await conn.connect()`)
   when it makes a new connection; release_connection has no await. *)

Callers == 1..MaxCallers

ConnectionStrings == {"primary", "replica"}

\* list.remove(x): the first element equal to x is taken out.
RECURSIVE remove(_, _)
remove(s, x) ==
    IF s = << >> THEN s
    ELSE IF Head(s) = x THEN Tail(s)
    ELSE <<Head(s)>> \o remove(Tail(s), x)

\* get_connection(connection_string) up to its return or to the await.
GetConnection(c, cs) ==
    /\ tasks[c].pc = "idle"
    /\ LET avail == SelectSeq(pool.available_connections,
                              LAMBDA x : x.connection_string = cs)
       IN  IF avail # << >>
           THEN \* an available connection with that string: hand it out
                LET conn == Head(avail)
                IN  /\ pool' = [pool EXCEPT
                          !.available_connections = remove(@, conn),
                          !.busy_connections = Append(@, conn)]
                    /\ tasks' = [tasks EXCEPT ![c] = [pc |-> "holding", conn |-> <<conn>>]]
           ELSE IF Len(pool.connections) < MaxConnections
           THEN \* conn = connection_class(connection_string); await conn.connect()
                /\ pool.made < MaxObjects
                /\ pool' = [pool EXCEPT !.made = @ + 1]
                /\ tasks' = [tasks EXCEPT ![c] =
                       [pc |-> "connecting",
                        conn |-> <<[id |-> pool.made + 1, connection_string |-> cs]>>]]
           ELSE \* return None
                /\ tasks' = [tasks EXCEPT ![c] = [pc |-> "refused", conn |-> None]]
                /\ UNCHANGED pool
    /\ UNCHANGED <<files, migrations, runVars, query, extVars, content, parsed,
                   effects, txn, consumer>>

\* connect() has returned: the connection is added and handed out, or
\* get_connection returns None.
ConnectReturns(c, ok) ==
    /\ tasks[c].pc = "connecting"
    /\ IF ok
       THEN /\ pool' = [pool EXCEPT
                  !.connections = Append(@, tasks[c].conn[1]),
                  !.busy_connections = Append(@, tasks[c].conn[1])]
            /\ tasks' = [tasks EXCEPT ![c].pc = "holding"]
       ELSE /\ tasks' = [tasks EXCEPT ![c] = [pc |-> "refused", conn |-> None]]
            /\ UNCHANGED pool
    /\ UNCHANGED <<files, migrations, runVars, query, extVars, content, parsed,
                   effects, txn, consumer>>

\* The caller that got None goes on.
GoOn(c) ==
    /\ tasks[c].pc = "refused"
    /\ tasks' = [tasks EXCEPT ![c].pc = "idle"]
    /\ UNCHANGED <<files, migrations, runVars, query, extVars, content, parsed,
                   effects, txn, pool, consumer>>

\* release_connection(connection) by the caller that holds it.
ReleaseConnection(c) ==
    /\ tasks[c].pc = "holding"
    /\ LET conn == tasks[c].conn[1]
       IN  IF InList(conn, pool.busy_connections)
           THEN pool' = [pool EXCEPT
                    !.busy_connections = remove(@, conn),
                    !.available_connections = Append(@, conn)]
           ELSE UNCHANGED pool
    /\ tasks' = [tasks EXCEPT ![c] = [pc |-> "idle", conn |-> None]]
    /\ UNCHANGED <<files, migrations, runVars, query, extVars, content, parsed,
                   effects, txn, consumer>>

NextPool ==
    \/ \E c \in Callers, cs \in ConnectionStrings : GetConnection(c, cs)
    \/ \E c \in Callers, ok \in BOOLEAN : ConnectReturns(c, ok)
    \/ \E c \in Callers : GoOn(c)
    \/ \E c \in Callers : ReleaseConnection(c)

SpecPool == InitEmpty /\ [][NextPool]_vars

----------------------------------------------------------------------------
(* MessageQueueConsumer.start.  The client's calls go through _make_request,
   which returns the response or raises Exception("Request failed: ...").
   The consume request asks for one message (count=1). *)

\* The record of the message in hand with one more acknowledgement call.
Called(call, ok) ==
    [consumer.handled EXCEPT ![Len(consumer.handled)].outcomes =
        Append(@, [call |-> call, ok |-> ok])]

\* response = self.client.consume(consume_request): a message, no message
\* (sleep), or an exception (outer except: print, sleep).
Consume(r) ==
    /\ consumer.pc = "consume"
    /\ IF r = "message"
       THEN /\ Len(consumer.handled) < MaxMessages
            /\ consumer' = [pc |-> "process",
                            handled |-> Append(consumer.handled,
                                [processed |-> "none", outcomes |-> << >>])]
       ELSE consumer' = [consumer EXCEPT !.pc = "sleep"]
    /\ UNCHANGED <<files, migrations, runVars, query, extVars, content, parsed,
                   effects, txn, pool, tasks>>

\* time.sleep(poll_interval), then the next turn of `while self.running`.
Sleep ==
    /\ consumer.pc = "sleep"
    /\ consumer' = [consumer EXCEPT !.pc = "consume"]
    /\ UNCHANGED <<files, migrations, runVars, query, extVars, content, parsed,
                   effects, txn, pool, tasks>>

\* self.process_message(message) returns or raises.
ProcessMessage(ok) ==
    /\ consumer.pc = "process"
    /\ consumer' =
          [pc |-> IF ok THEN "acknowledge" ELSE "negative_acknowledge",
           handled |-> [consumer.handled EXCEPT ![Len(consumer.handled)].processed =
                           IF ok THEN "returned" ELSE "raised"]]
    /\ UNCHANGED <<files, migrations, runVars, query, extVars, content, parsed,
                   effects, txn, pool, tasks>>

\* self.client.acknowledge(...), inside the same try as process_message: an
\* exception of it is caught by the handler that negatively acknowledges.
Acknowledge(ok) ==
    /\ consumer.pc = "acknowledge"
    /\ consumer' = [pc |-> IF ok THEN "consume" ELSE "negative_acknowledge",
                    handled |-> Called("acknowledge", ok)]
    /\ UNCHANGED <<files, migrations, runVars, query, extVars, content, parsed,
                   effects, txn, pool, tasks>>

\* self.client.negative_acknowledge(..., retry=True) in the handler: an
\* exception of it leaves the for loop for the outer handler (print, sleep).
NegativeAcknowledge(ok) ==
    /\ consumer.pc = "negative_acknowledge"
    /\ consumer' = [pc |-> IF ok THEN "consume" ELSE "sleep",
                    handled |-> Called("negative_acknowledge", ok)]
    /\ UNCHANGED <<files, migrations, runVars, query, extVars, content, parsed,
                   effects, txn, pool, tasks>>

NextConsumer ==
    \/ \E r \in {"message", "empty", "raise"} : Consume(r)
    \/ Sleep
    \/ \E ok \in BOOLEAN : ProcessMessage(ok)
    \/ \E ok \in BOOLEAN : Acknowledge(ok)
    \/ \E ok \in BOOLEAN : NegativeAcknowledge(ok)

SpecConsumer == InitEmpty /\ [][NextConsumer]_vars

----------------------------------------------------------------------------
(* Properties *)

RunEnded(k) == pc = "idle" /\ kind = k

\* Number of entries of the log for version v.
RECURSIVE CountLog(_, _)
CountLog(l, v) ==
    IF l = << >> THEN 0
    ELSE (IF Head(l).version = v THEN 1 ELSE 0) + CountLog(Tail(l), v)

\* Migrations whose up-script is committed when a down run starts and whose
\* version is above the target (all of them when no target is given).
RevertSet ==
    {m \in Range(migrations) :
        /\ m.version \in dbStart
        /\ Truthy(target) => m.version > target[1]}

\* C1 - fail-fast atomicity of migrate up: when a run ends in which an
\* up-script failed, every migration whose script succeeded before it is in
\* the ledger, the failing one is not, and no script was executed after it.
C1_FailFastAtomicity ==
    RunEnded("up") =>
        \A i \in 1..Len(log) :
            ~log[i].ok =>
                /\ \A j \in 1..(i - 1) : log[j].ok => log[j].version \in ledger
                /\ log[i].version \notin ledger
                /\ i = Len(log)

\* C2 - ledger/database agreement: between and after runs a version has a
\* ledger entry if and only if its up-script is committed and not reverted.
C2_LedgerAgreesWithDatabase ==
    pc = "idle" => \A v \in Versions : v \in ledger <=> v \in db

\* C3 - idempotent re-run: a migrate up without target that directly follows
\* a successful migrate up without target executes no up-script (and so
\* makes no ledger write).
C3_IdempotentRerun ==
    (/\ kind = "up" /\ target = None
     /\ prev.kind = "up" /\ prev.target = None /\ prev.result = "true")
        => log = << >>

\* C4 - missing-rollback guard: a migrate down run whose revert set holds a
\* migration with an empty down_script ends as failed, having executed no
\* down-script and deleted no ledger row.
C4_MissingRollbackGuard ==
    (RunEnded("down") /\ \E m \in RevertSet : ~m.down) =>
        /\ result = "false"
        /\ log = << >>
        /\ ledger = ledgerStart
        /\ db = dbStart

\* C5 - ascending application order: in a migrate up run the up-scripts are
\* executed in strictly ascending version order, and a script only starts
\* once the ledger entry of the one before it is recorded.
C5_AscendingApplicationOrder ==
    kind = "up" =>
        \A i \in 1..(Len(log) - 1) :
            /\ log[i].version < log[i + 1].version
            /\ log[i].version \in ledger

\* C6 - descending rollback order: in a migrate down run the down-scripts are
\* executed in strictly descending version order, each reverted migration
\* leaving the ledger before the next script starts; with versions 1, 2, 3
\* applied and target 1 the run reverts 3 and then 2.
C6_DescendingRollbackOrder ==
    /\ kind = "down" =>
          \A i \in 1..(Len(log) - 1) :
              /\ log[i].version > log[i + 1].version
              /\ log[i].version \notin ledger
    /\ (/\ RunEnded("down") /\ result = "true" /\ target = <<1>>
        /\ {1, 2, 3} \subseteq dbStart
        /\ \A m \in Range(migrations) : m.down)
          => VersionsOf(log) = <<3, 2>>

\* C7 - pending set correctness: get_pending_migrations returns exactly the
\* defined migrations whose version is not in the applied list, each once,
\* in ascending version order; get_migration_status reports no version as
\* both pending and applied.
C7_PendingSetCorrect ==
    /\ query.op = "get_pending_migrations" =>
          LET D == Range(migrations)
              A == Range(query.applied_versions)
              P == query.pending
          IN  /\ Range(P) = {m \in D : m.version \notin A}
              /\ Len(P) = Cardinality(Range(P))
              /\ \A i \in 1..(Len(P) - 1) : P[i].version <= P[i + 1].version
    /\ query.op = "get_migration_status" =>
          /\ Range(query.pending_versions) \cap Range(query.applied_versions) = {}
          /\ Range(query.pending_versions) =
                {m.version : m \in Range(migrations)} \ Range(query.applied_versions)

\* Witness of C7: a call whose applied list names a defined migration and
\* leaves another one pending.
C7_Witness ==
    /\ query.op = "get_pending_migrations"
    /\ \E m \in Range(migrations) : m.version \in Range(query.applied_versions)
    /\ Len(query.pending) >= 1
    /\ Len(migrations) >= 3

\* The pending migrations an up run with the current target has to apply.
UpWanted ==
    {m \in Range(migrations) :
        /\ m.version \notin ledgerStart
        /\ Truthy(target) => m.version <= target[1]}

\* C8 - up target semantics: a migrate up run executes only pending
\* migrations with version <= target (all pending ones without target),
\* and a run that completes has executed each of them exactly once.
C8_UpTargetSemantics ==
    kind = "up" =>
        /\ \A i \in 1..Len(log) :
              /\ \E m \in UpWanted : m.version = log[i].version
              /\ Truthy(target) => log[i].version <= target[1]
        /\ (pc = "idle" /\ result = "true") =>
              \A v \in Versions :
                  CountLog(log, v) = Cardinality({m \in UpWanted : m.version = v})

\* Witness of C8: a completed run with a target that applied a migration and
\* left a defined migration above the target alone.
C8_Witness ==
    /\ RunEnded("up") /\ result = "true" /\ Truthy(target)
    /\ \E i \in 1..Len(log) : log[i].version = target[1]
    /\ \E m \in Range(migrations) : m.version > target[1]

\* C9 - down target semantics: a successful migrate down with a target,
\* after a successful migrate up, has executed the down-script of exactly
\* the applied migrations above the target, and the ledger then holds
\* exactly the previously applied versions up to the target.
C9_DownTargetSemantics ==
    (/\ RunEnded("down") /\ result = "true" /\ Truthy(target)
     /\ prev.kind = "up" /\ prev.result = "true"
     /\ \A m \in RevertSet : m.down)
        => /\ \A v \in Versions :
                CountLog(log, v) = Cardinality({m \in RevertSet : m.version = v})
           /\ ledger = {v \in dbStart : v <= target[1]}

\* C10 - duplicate versions: the loaded migration list never holds two
\* migrations with the same version.
C10_NoDuplicateVersions ==
    \A i, j \in 1..Len(migrations) :
        i # j => migrations[i].version # migrations[j].version

C15_FailureNamesVersion ==
    (pc = "idle" /\ result = "false") =>
        FailingVersionOf(result) = <<log[Len(log)].version>>

\* C12 - ledger round-trip: get_applied_versions returns exactly the versions
\* handed to mark_migration_applied and not since to
\* mark_migration_rolled_back.
C12_LedgerRoundTrip ==
    query.op = "get_applied_versions" =>
        Range(query.applied_versions) = {v \in Versions : recorded[v] > 0}

\* C13 - recording a version that already has an entry fails: no version has
\* two mark_migration_applied calls that returned without a
\* mark_migration_rolled_back between them.  (The ledger is a set of
\* versions, so it cannot hold two entries for one version.)
C13_DuplicateRecordFails ==
    \A v \in Versions : recorded[v] <= 1

\* C14 - mutual exclusion of runs: an invocation that starts while another
\* one is in its loop executes no script and ends as failed, and no version
\* has its up-script executed by both of two overlapping runs.
C14_MutualExclusion ==
    other.late =>
        /\ other.log = << >>
        /\ other.pc = "idle" => other.result = "false"
        /\ runs = other.since =>
              \A i \in 1..Len(log) : \A j \in 1..Len(other.log) :
                  log[i].version # other.log[j].version

\* C16 - the status query has no side effects: a get_migration_status call
\* executes no script and leaves the directory, the loaded migration list,
\* the database, the ledger and the run in progress as they are, and what it
\* reports is the number of loaded migrations, the versions of the ledger
\* and the loaded migrations whose version is not in the ledger.
C16_StatusHasNoSideEffects ==
    [][(query' # query /\ query'.op = "get_migration_status") =>
          /\ UNCHANGED <<files, migrations, db, ledger, log, plan, pc, result>>
          /\ query'.total_migrations = Len(migrations)
          /\ Range(query'.applied_versions) = ledger
          /\ query'.applied_migrations = Cardinality(ledger)
          /\ query'.pending_versions =
                VersionsOf(SelectSeq(migrations, LAMBDA m : m.version \notin ledger))
          /\ query'.pending_migrations = Len(query'.pending_versions)]_vars

\* Witness of C16: the status was asked in the middle of a run, after a
\* script was committed, with several migrations defined.
C16_Witness ==
    /\ query.op = "get_migration_status"
    /\ pc = "up" /\ plan # << >> /\ log # << >>
    /\ db # {}
    /\ query.pending_migrations >= 2

\* C17 - definition errors stop the run: when a file with a valid name
\* cannot be read, no migration script is executed against the database.
C17_UnreadableFileStopsRun ==
    (\E f \in files : f.class = "unreadable") => (log = << >> /\ db = {})

\* The files of class c are each logged as a warning, yield no Migration,
\* and do not keep the readable migrations out of the loaded list.
WarnedAndSkipped(c) ==
    /\ \A f \in files :
          f.class \in c =>
              /\ \E i \in 1..Len(loadLog) :
                    loadLog[i] = [level |-> "warning", version |-> f.version,
                                  slug |-> f.slug]
              /\ \A i \in 1..Len(migrations) :
                    ~(migrations[i].version = f.version /\ migrations[i].slug = f.slug)
    /\ \A f \in files :
          f.class = "migration" =>
              \E i \in 1..Len(migrations) :
                  migrations[i] = [version |-> f.version, slug |-> f.slug,
                                   down |-> f.down]

C19_CancelStopsBeforeNextScript ==
    [][(cancel = runs /\ pc = "up") => log' = log]_vars

\* C20 - history immutability under create: every file that exists before a
\* step exists after it with the same name and content.
C20_CreateOnlyAdds ==
    [][files \subseteq files']_vars

\* The text before the first DOWN marker, and the text after it.
BeforeDown(c) ==
    LET i == find(c, "DOWN") IN IF i = 0 THEN c ELSE SubSeq(c, 1, i - 1)

AfterDown(c) ==
    LET i == find(c, "DOWN") IN IF i = 0 THEN << >> ELSE SubSeq(c, i + 1, Len(c))

\* C21 - up/down split: down_sql is everything after the DOWN marker,
\* stripped, and empty without a marker; up_sql is everything before the
\* DOWN marker, from which nothing but a leading UP marker is removed.
C21_UpDownSplit ==
    parsed.read =>
        /\ parsed.down_sql = strip(AfterDown(content))
        /\ parsed.up_sql =
              LET u == strip(BeforeDown(content))
              IN  IF u # << >> /\ Head(u) = "UP" THEN strip(Tail(u)) ELSE u

\* C25 - the comment header is ignored: when there is text before the first
\* UP marker, up_sql is the text between that marker and the DOWN marker,
\* and down_sql the text after the DOWN marker.
C25_HeaderIgnored ==
    LET u == BeforeDown(content)
        i == find(u, "UP")
    IN  (parsed.read /\ i > 1 /\ strip(SubSeq(u, 1, i - 1)) # << >>) =>
            /\ parsed.up_sql = strip(SubSeq(u, i + 1, Len(u)))
            /\ parsed.down_sql = strip(AfterDown(content))

\* C22 - per-migration transactional rollback: when a run has ended by the
\* failure of a script, no statement of that execution of the script is in
\* effect (the statements of a version are in effect only when a script of
\* that version is committed), and every statement of the migrations that
\* were completed earlier in the run is in effect.
C22_TransactionalRollback ==
    (RunEnded("up") /\ result = "false") =>
        LET V == log[Len(log)].version
        IN  /\ V \notin db => \A i \in 1..MaxStatements : <<V, i>> \notin effects
            /\ \A j \in 1..(Len(log) - 1) :
                  /\ log[j].version \in db
                  /\ \A i \in 1..MaxStatements : <<log[j].version, i>> \in effects

\* Witness of C22: a script failed after its first statement had taken
\* effect, in a run that had completed a migration before.
C22_Witness ==
    /\ RunEnded("up") /\ result = "false"
    /\ ~txn.open /\ txn.done >= 1
    /\ Len(log) >= 2
    /\ log[Len(log)].version \notin db

\* Versions whose script the current / last run executed successfully.
Succeeded == {log[i].version : i \in {j \in 1..Len(log) : log[j].ok}}

C24_MissingDownIsDistinctFailure ==
    /\ (RunEnded("down") /\ \E m \in RevertSet : ~m.down) =>
          result \notin {"true", ScriptFailureResult}
    /\ (RunEnded("down") /\ result = "true" /\ Truthy(target)) =>
          \A v \in ledger : v <= target[1]

\* The migrations the current / last run has to execute.
Planned == IF kind = "up" THEN UpWanted ELSE RevertSet

\* C26 - every run ends in exactly one of COMPLETED (True) and FAILED
\* (False); a run that completed has executed the script of every migration
\* of its plan and recorded it in the ledger (entered for up, removed for
\* down); and once a run has ended no script is executed until the next run
\* starts.
C26_RunLifecycle ==
    /\ [](pc # "idle" => <>(pc = "idle" /\ result \in {"true", "false"}))
    /\ [](pc = "idle" /\ result = "true" =>
            \A m \in Planned :
                /\ m.version \in Succeeded
                /\ m.version \in ledger <=> kind = "up")
    /\ [][pc = "idle" => log' = log \/ log' = << >>]_vars

\* C27 - ledger access discipline: the ledger is read when the run starts
\* (the plan is computed from it then), and the ledger rows a run has
\* written are exactly those of the migrations whose script it executed
\* successfully: one row entered per script of an up run, one row removed
\* per script of a down run, none for a failed or unattempted migration.
C27_LedgerAccessDiscipline ==
    /\ kind = "up" => ledger \ ledgerStart = Succeeded \ ledgerStart
    /\ kind = "down" => ledgerStart \ ledger = Succeeded \cap ledgerStart
    /\ kind = "up" => ledgerStart \subseteq ledger
    /\ kind = "down" => ledger \subseteq ledgerStart

\* S holds, with each of its versions, every lower version of the store.
DownwardClosed(S) ==
    \A v \in S : \A m \in Range(migrations) : m.version < v => m.version \in S

\* C28 - the applied set is a version prefix: in every state reached from
\* the empty ledger by migrate up and migrate down runs, the versions whose
\* up-script is committed, and the versions of the ledger, are closed
\* downwards among the defined versions.
C28_AppliedIsPrefix ==
    /\ DownwardClosed(db)
    /\ DownwardClosed(ledger)

\* Witness of C28: a migrate down run, on a store with an empty down_script,
\* has ended after a migrate up run, and some but not all of the defined
\* migrations are applied.
C28_Witness ==
    /\ RunEnded("down") /\ prev.kind = "up"
    /\ db # {}
    /\ \E m \in Range(migrations) : m.version \notin db
    /\ \E m \in Range(migrations) : m.version \in db /\ ~m.down

\* C29 - pool capacity and partition: the pool never holds more than
\* max_connections connections, every pooled connection is in exactly one
\* of available_connections and busy_connections, once, and no connection
\* is held by two callers.
C29_PoolCapacityAndPartition ==
    /\ Len(pool.connections) <= MaxConnections
    /\ \A x \in Range(pool.connections) :
          Cardinality({i \in 1..Len(pool.available_connections) :
                          pool.available_connections[i] = x})
          + Cardinality({i \in 1..Len(pool.busy_connections) :
                          pool.busy_connections[i] = x}) = 1
    /\ \A c, d \in Callers :
          (c # d /\ tasks[c].pc = "holding" /\ tasks[d].pc = "holding")
              => tasks[c].conn # tasks[d].conn

\* C30 - consumer acknowledgement: for every message the loop is through
\* with (the next consume is due or done), exactly one acknowledgement call
\* was made: acknowledge when process_message returned, negative_acknowledge
\* when it raised; and a message whose process_message returned is never
\* negatively acknowledged.
C30_OneAcknowledgementPerMessage ==
    \A i \in 1..Len(consumer.handled) :
        LET h == consumer.handled[i]
        IN  /\ (i < Len(consumer.handled) \/ consumer.pc \in {"consume", "sleep"}) =>
                  /\ Len(h.outcomes) = 1
                  /\ h.outcomes[1].call = IF h.processed = "returned"
                                          THEN "acknowledge"
                                          ELSE "negative_acknowledge"
            /\ h.processed = "returned" =>
                  \A k \in 1..Len(h.outcomes) :
                      h.outcomes[k].call # "negative_acknowledge"

====
